---- MODULE Spec2Model ----
(***************************************************************************)
(* Approval-gated stamp generation workflow of line_stamp_tool.            *)
(*                                                                         *)
(* The model covers the State Store (src/db/models.py, src/db/crud.py),    *)
(* the Workflow Engine (src/core/workflow.py, StampWorkflowManager) and    *)
(* the trigger surface that reaches it (src/slack/bot.py).  Every engine   *)
(* stage runs in a daemon thread started by its trigger; a thread is one   *)
(* entry of `tasks` and advances by the steps between its store commits    *)
(* and its Image Client calls.  The engine's operations are public and     *)
(* are invoked by the environment at any time, with the id of an inserted  *)
(* Set or with an id that does not exist.  Spec runs every operation on    *)
(* one Set concurrently, SpecSeq is the approval-gated run of the two      *)
(* image stages, SpecSets runs the store and the phrase stage on several   *)
(* Sets, SpecDir runs the direction stage and the requests for one Item,   *)
(* SpecLive is the gated run with its threads scheduled fairly.            *)
(***************************************************************************)
EXTENDS Integers, Sequences, FiniteSets, TLC

\* ----------------------------------------------------------------- bounds
MaxSets == 2        \* Sets that create_new_set may insert
MaxStamps == 2      \* Items one Set may hold
MaxSeed == 2        \* random.randint(1, 1000000) is drawn from 1..MaxSeed
MaxSpawns == 2      \* background threads started in one behaviour
MaxHandled == 2     \* requests recorded that end on the request path

\* ------------------------------------------------------- program constants
SampleSize == 5     \* stamps[:5]

NoSeed == 0         \* seed column NULL / local seed None
NoPath == 0         \* image_path column NULL

SetIds == 1..MaxSets
TaskIds == 1..MaxSpawns
Seeds == 1..MaxSeed

STATUSES ==
  << "direction_pending", "direction_approved", "patterns_pending",
     "patterns_approved", "samples_generating", "samples_review",
     "full_generating", "full_review", "completed" >>

Genres == {"animal", "original_character", "concept", "ai_free"}

VARIABLES
  numSets,    \* rows of table stamp_sets: ids 1..numSets exist
  sets,       \* SetIds -> row of stamp_sets
  stamps,     \* SetIds -> rows of table stamps of that Set, ordered by number
  tasks,      \* TaskIds -> background thread (its position and locals)
  spawned,    \* threads started so far
  calls,      \* Image Client calls made under a base seed (history)
  handled     \* requests that ended on the request path (history)

vars == << numSets, sets, stamps, tasks, spawned, calls, handled >>

\* ------------------------------------------------------------- State Store
\* mutant of StampSet: a new row starts with the direction approved
StampSet_Approved ==
  [ status |-> "direction_approved",
    genre |-> "",
    character_description |-> FALSE,
    character_consistency |-> TRUE,
    seed |-> NoSeed,
    reference_image_path |-> FALSE,
    lora_exported |-> FALSE ]

\* Column defaults of a stamp_sets row; create_new_set passes genre="".
StampSet ==
  [ status |-> "direction_pending",
    genre |-> "",
    character_description |-> FALSE,
    character_consistency |-> TRUE,
    seed |-> NoSeed,
    reference_image_path |-> FALSE,
    lora_exported |-> FALSE ]

\* A stamps row as StampCRUD.create inserts it.
Stamp(number) ==
  [ number |-> number, image_path |-> NoPath, seed |-> NoSeed,
    is_sample |-> FALSE, retry_count |-> 0 ]

\* StampCRUD.get_by_set: the rows of a Set ordered by number
Sorted(q) == \A k \in 1..(Len(q) - 1) : q[k] <= q[k + 1]

\* the numbers a writer may give the rows of a Set: the column is a plain
\* integer, no constraint makes it unique or contiguous within a Set
Contiguous(n) == [k \in 1..n |-> k]

Numberings ==
  {Contiguous(n) : n \in 1..MaxStamps}
    \cup {q \in [1..2 -> 1..2] : Sorted(q)}

Exists(s) == s \in 1..numSets

\* mutant of update_status: the row is written without looking it up
update_status_Unchecked(S, s, status) ==
  [S EXCEPT ![s].status = status]

\* StampSetCRUD.update_status: writes the status of an existing row.
update_status(S, s, status) ==
  IF Exists(s) THEN [S EXCEPT ![s].status = status] ELSE S

\* StampSetCRUD.update_character_description; the model keeps whether the
\* column holds a non-empty text
update_character_description(S, s) ==
  IF Exists(s) THEN [S EXCEPT ![s].character_description = TRUE] ELSE S

\* StampSetCRUD.update_reference_image; the model keeps whether the column
\* holds a path
update_reference_image(S, s) ==
  IF Exists(s) THEN [S EXCEPT ![s].reference_image_path = TRUE] ELSE S

\* StampSetCRUD.update_seed
update_seed(S, s, seed) ==
  IF Exists(s) THEN [S EXCEPT ![s].seed = seed] ELSE S

\* mutant of mark_lora_exported: the flag is not written
mark_lora_exported_NotWritten(S, s) == S

\* StampSetCRUD.mark_lora_exported
mark_lora_exported(S, s) ==
  IF Exists(s) THEN [S EXCEPT ![s].lora_exported = TRUE] ELSE S

\* ImageProcessor.save_stamp_image: output_dir/<set_id>/stamp_<number:02d>.png
save_stamp_image(s, number) == s * 100 + number

\* mutant of update_image_path: the Set keeps only the row that is written
update_image_path_KeepsOneRow(T, s, j, path) ==
  [T EXCEPT ![s] = << [@[j] EXCEPT !.image_path = path] >>]

\* StampCRUD.update_image_path on row j of Set s.
update_image_path(T, s, j, path) ==
  [T EXCEPT ![s][j].image_path = path]

\* ------------------------------------------------------------------ threads
Idle ==
  [ kind |-> "none", set |-> 0, pc |-> "idle", i |-> 0, n |-> 0,
    cc |-> FALSE, seed |-> NoSeed, cur |-> NoSeed, had |-> {}, stale |-> FALSE,
    generated |-> {}, err |-> "", note |-> "", lost |-> FALSE,
    ref |-> FALSE ]

InFlight(t) == tasks[t].pc \notin {"idle", "done"}

\* mutant of Spawn: the trigger itself goes into the client call
Spawn_CallsInline(kind, s) ==
  /\ spawned < MaxSpawns
  /\ spawned' = spawned + 1
  /\ tasks' = [tasks EXCEPT ![spawned + 1] =
                 [Idle EXCEPT !.kind = kind, !.set = s, !.pc = "prompting"]]

\* threading.Thread(target=run_in_background, daemon=True).start()
Spawn(kind, s) ==
  /\ spawned < MaxSpawns
  /\ spawned' = spawned + 1
  /\ tasks' = [tasks EXCEPT ![spawned + 1] =
                 [Idle EXCEPT !.kind = kind, !.set = s, !.pc = "start"]]

Init ==
  /\ numSets = 0
  /\ sets = [s \in SetIds |-> StampSet]
  /\ stamps = [s \in SetIds |-> << >>]
  /\ tasks = [t \in TaskIds |-> Idle]
  /\ spawned = 0
  /\ calls = {}
  /\ handled = {}

\* ---------------------------------------------------------------- triggers
\* StampWorkflowManager.create_new_set (StampSetCRUD.create, fresh uuid4 id)
create_new_set ==
  /\ numSets < MaxSets
  /\ numSets' = numSets + 1
  /\ sets' = [sets EXCEPT ![numSets + 1] = StampSet]
  /\ UNCHANGED << stamps, tasks, spawned, calls, handled >>

\* mutant of select_stamp_type: every stamp type keeps character consistency
select_stamp_type_AlwaysConsistent(s, stamp_type) ==
  /\ Exists(s)
  /\ sets' = [sets EXCEPT ![s].genre = stamp_type,
                          ![s].character_consistency = TRUE]
  /\ sets' # sets
  /\ UNCHANGED << numSets, stamps, tasks, spawned, calls, handled >>

\* SlackBot._handle_stamp_type_selection
select_stamp_type(s, stamp_type) ==
  /\ Exists(s)
  /\ sets' = [sets EXCEPT ![s].genre = stamp_type,
                          ![s].character_consistency = (stamp_type # "concept")]
  /\ sets' # sets
  /\ UNCHANGED << numSets, stamps, tasks, spawned, calls, handled >>

\* StampCRUD.create, used by a writer of the store that gives the rows of a
\* Set the numbers q and passes is_sample=True for the rows in flagged.  No
\* engine operation calls it; the rows of a Set are inserted once.
StampCRUD_create(s, q, flagged) ==
  /\ Exists(s)
  /\ stamps[s] = << >>
  /\ stamps' = [stamps EXCEPT ![s] =
                  [k \in 1..Len(q) |->
                     [Stamp(q[k]) EXCEPT !.is_sample = (k \in flagged)]]]
  /\ UNCHANGED << numSets, sets, tasks, spawned, calls, handled >>

\* StampSetCRUD.update_character_description, used by a writer of the store.
\* No engine operation calls it.
StampSetCRUD_update_character_description(s) ==
  /\ Exists(s)
  /\ sets' = update_character_description(sets, s)
  /\ sets' # sets
  /\ UNCHANGED << numSets, stamps, tasks, spawned, calls, handled >>

\* StampSetCRUD.update_reference_image, used by a writer of the store.  No
\* engine operation calls it: the upload handler stores nothing.
StampSetCRUD_update_reference_image(s) ==
  /\ Exists(s)
  /\ sets' = update_reference_image(sets, s)
  /\ sets' # sets
  /\ UNCHANGED << numSets, stamps, tasks, spawned, calls, handled >>

\* web app GET /set/{set_id}/export-lora: exports the rows that have an image
\* and marks the Set
export_lora(s) ==
  /\ Exists(s)
  /\ \E j \in 1..Len(stamps[s]) : stamps[s][j].image_path # NoPath
  /\ sets' = mark_lora_exported(sets, s)
  /\ sets' # sets
  /\ UNCHANGED << numSets, stamps, tasks, spawned, calls, handled >>

\* StampWorkflowManager.approve_direction
approve_direction(s) ==
  /\ Exists(s)
  /\ sets' = update_status(sets, s, "direction_approved")
  /\ Spawn("phrase", s)
  /\ UNCHANGED << numSets, stamps, calls, handled >>

\* a request that ends on the request path
Handled(op, s, row) == [op |-> op, set |-> s, row |-> row]

\* mutant of start_direction_workflow: the proposals are generated whether or
\* not a reference image is announced
start_direction_workflow_AlwaysGenerates(s, has_reference_image) ==
  /\ Exists(s)
  /\ Spawn("proposal", s)
  /\ IF has_reference_image
     THEN /\ Cardinality(handled) < MaxHandled
          /\ Handled("reference", s, 0) \notin handled
          /\ handled' = handled \cup {Handled("reference", s, 0)}
     ELSE UNCHANGED handled
  /\ UNCHANGED << numSets, sets, stamps, calls >>

\* StampWorkflowManager.start_direction_workflow, lines 65-89: with a
\* reference image the caller is asked for the upload and nothing else
\* happens; without one the proposal thread is started
start_direction_workflow(s, has_reference_image) ==
  /\ Exists(s)
  /\ IF has_reference_image
     THEN /\ Cardinality(handled) < MaxHandled
          /\ Handled("reference", s, 0) \notin handled
          /\ handled' = handled \cup {Handled("reference", s, 0)}
          /\ UNCHANGED << tasks, spawned >>
     ELSE /\ Spawn("proposal", s)
          /\ UNCHANGED handled
  /\ UNCHANGED << numSets, sets, stamps, calls >>

\* The button "regenerate_stamp" that the sample notification shows for each
\* Item (workflow.py lines 336-352): SlackBot._register_handlers registers no
\* listener for it, so a click reaches no code of the program.  The click on
\* the button of row j, shown once a sample thread of the Set has notified
\* its samples, is recorded.
regenerate_stamp(s, j) ==
  /\ Exists(s)
  /\ j \in 1..Len(stamps[s])
  /\ stamps[s][j].image_path # NoPath
  /\ \E t \in TaskIds :
       /\ tasks[t].kind = "sample" /\ tasks[t].set = s
       /\ tasks[t].pc = "done" /\ tasks[t].note = "samples"
  /\ Cardinality(handled) < MaxHandled
  /\ Handled("regenerate_stamp", s, j) \notin handled
  /\ handled' = handled \cup {Handled("regenerate_stamp", s, j)}
  /\ UNCHANGED << numSets, sets, stamps, tasks, spawned, calls >>

\* SlackBot._handle_regenerate_phrases -> _generate_phrase_patterns
regenerate_phrases(s) ==
  /\ Spawn("phrase", s)
  /\ UNCHANGED << numSets, sets, stamps, calls, handled >>

\* SlackBot._handle_approve_phrases / _handle_reject_samples
\*   -> StampWorkflowManager.generate_sample_stamps
generate_sample_stamps(s) ==
  /\ Spawn("sample", s)
  /\ UNCHANGED << numSets, sets, stamps, calls, handled >>

\* SlackBot._handle_approve_samples -> StampWorkflowManager.generate_full_stamps
generate_full_stamps(s) ==
  /\ Spawn("full", s)
  /\ UNCHANGED << numSets, sets, stamps, calls, handled >>

\* ------------------------------------------------ background thread steps
Min(a, b) == IF a < b THEN a ELSE b

\* the thread ends: by return (err = ""), or in its except clause after the
\* step named by err raised
Finish(t, err) ==
  [Idle EXCEPT !.kind = tasks[t].kind, !.set = tasks[t].set, !.pc = "done",
               !.i = IF err = "save" THEN tasks[t].i ELSE 0, !.err = err]

\* mutant of notify_slack: a delivery failure ends the thread
notify_slack_Propagates(thread, text, delivered) ==
  IF delivered
  THEN [thread EXCEPT !.note = text, !.lost = FALSE]
  ELSE [Idle EXCEPT !.kind = thread.kind, !.set = thread.set, !.pc = "done",
                    !.err = "notify"]

\* StampWorkflowManager._notify_slack: the callback runs inside try/except, so
\* the thread goes on whether the delivery succeeds or fails; lost marks a
\* thread that goes on after a failed delivery
notify_slack(thread, text, delivered) ==
  [thread EXCEPT !.note = text, !.lost = ~delivered /\ thread.pc # "done"]

\* mutant of PromptNote: an empty result is notified as a success
PromptNote_AlwaysGenerated(n, generated) == generated

\* lines 111-113 and 193-195: an empty result of the Prompt Client is notified
\* as a failure
PromptNote(n, generated) == IF n = 0 THEN "failure" ELSE generated

\* _generate_character_proposals.run_in_background, lines 94-107: reads the
\* Set; an absent Set ends the thread with a failure notification
ProposalStart(t) ==
  /\ tasks[t].kind = "proposal" /\ tasks[t].pc = "start"
  /\ IF ~Exists(tasks[t].set)
     THEN \E delivered \in BOOLEAN :
            tasks' = [tasks EXCEPT ![t] =
                        notify_slack(Finish(t, ""), "failure", delivered)]
     ELSE tasks' = [tasks EXCEPT ![t].pc = "prompting"]
  /\ UNCHANGED << numSets, sets, stamps, spawned, calls, handled >>

\* _generate_character_proposals.run_in_background, lines 109-150: the Prompt
\* Client returned n proposals (none when its call or its parse failed); the
\* thread notifies and writes nothing to the store; n is kept with the ended
\* thread
ProposalResult(t) ==
  /\ tasks[t].kind = "proposal" /\ tasks[t].pc = "prompting"
  /\ \E n \in 0..MaxStamps, delivered \in BOOLEAN :
       tasks' = [tasks EXCEPT ![t] =
                   notify_slack([Finish(t, "") EXCEPT !.n = n],
                                PromptNote(n, "proposals"), delivered)]
  /\ UNCHANGED << numSets, sets, stamps, spawned, calls, handled >>

\* _generate_phrase_patterns.run_in_background, lines 181-187: an absent Set
\* or an empty character_description ends the thread with a failure
\* notification
PhraseStart(t) ==
  /\ tasks[t].kind = "phrase" /\ tasks[t].pc = "start"
  /\ LET s == tasks[t].set IN
       IF ~Exists(s) \/ ~sets[s].character_description
       THEN \E delivered \in BOOLEAN :
              tasks' = [tasks EXCEPT ![t] =
                          notify_slack(Finish(t, ""), "failure", delivered)]
       ELSE tasks' = [tasks EXCEPT ![t].pc = "prompting"]
  /\ UNCHANGED << numSets, sets, stamps, spawned, calls, handled >>

\* _generate_phrase_patterns.run_in_background, lines 189-234: the Prompt
\* Client returned n phrases (none when its call or its parse failed); the
\* thread notifies and writes nothing to the store; n is kept with the ended
\* thread
PhraseResult(t) ==
  /\ tasks[t].kind = "phrase" /\ tasks[t].pc = "prompting"
  /\ \E n \in 0..MaxStamps, delivered \in BOOLEAN :
       tasks' = [tasks EXCEPT ![t] =
                   notify_slack([Finish(t, "") EXCEPT !.n = n],
                                PromptNote(n, "phrases"), delivered)]
  /\ UNCHANGED << numSets, sets, stamps, spawned, calls, handled >>

\* mutant of SampleStart: a Set that is already generating samples is refused
SampleStart_RefusesGenerating(t) ==
  /\ tasks[t].kind = "sample" /\ tasks[t].pc = "start"
  /\ LET s == tasks[t].set IN
       IF ~Exists(s) \/ sets[s].status = "samples_generating"
       THEN /\ tasks' = [tasks EXCEPT ![t] = Finish(t, "")]
            /\ UNCHANGED sets
       ELSE /\ sets' = update_status(sets, s, "samples_generating")
            /\ tasks' = [tasks EXCEPT ![t].pc = "select",
                                      ![t].cc = sets[s].character_consistency]
  /\ UNCHANGED << numSets, stamps, spawned, calls, handled >>

\* generate_sample_stamps.run_in_background, lines 247-257; update_status
\* refreshes stamp_set, the row the thread reads its flags from
SampleStart(t) ==
  /\ tasks[t].kind = "sample" /\ tasks[t].pc = "start"
  /\ LET s == tasks[t].set IN
       IF ~Exists(s)
       THEN /\ tasks' = [tasks EXCEPT ![t] = Finish(t, "")]
            /\ UNCHANGED sets
       ELSE /\ sets' = update_status(sets, s, "samples_generating")
            /\ tasks' = [tasks EXCEPT ![t].pc = "select",
                                      ![t].cc = sets[s].character_consistency]
  /\ UNCHANGED << numSets, stamps, spawned, calls, handled >>

\* base seed of the sample stage, lines 271-276: drawn and persisted on
\* every run of a Set with character consistency
SampleSeed(cc, drawn) ==
  IF cc THEN drawn ELSE NoSeed

\* mutant of SampleSelect: a Set without rows keeps the status it has
SampleSelect_KeepsStatus(t) ==
  /\ tasks[t].kind = "sample" /\ tasks[t].pc = "select"
  /\ LET s == tasks[t].set
         n == Min(Len(stamps[s]), SampleSize)
     IN IF n = 0
        THEN /\ UNCHANGED sets
             /\ \E delivered \in BOOLEAN :
                  tasks' = [tasks EXCEPT ![t] =
                              notify_slack(Finish(t, ""), "failure", delivered)]
        ELSE \E drawn \in Seeds :
               LET seed == SampleSeed(tasks[t].cc, drawn) IN
               /\ sets' = IF seed # NoSeed THEN update_seed(sets, s, seed) ELSE sets
               /\ tasks' = [tasks EXCEPT ![t].pc = "loop", ![t].i = 0,
                                         ![t].n = n, ![t].seed = seed]
  /\ UNCHANGED << numSets, stamps, spawned, calls, handled >>

\* generate_sample_stamps.run_in_background, lines 259-276
SampleSelect(t) ==
  /\ tasks[t].kind = "sample" /\ tasks[t].pc = "select"
  /\ LET s == tasks[t].set
         n == Min(Len(stamps[s]), SampleSize)
     IN IF n = 0
        THEN /\ sets' = update_status(sets, s, "patterns_approved")
             /\ \E delivered \in BOOLEAN :
                  tasks' = [tasks EXCEPT ![t] =
                              notify_slack(Finish(t, ""), "failure", delivered)]
        ELSE \E drawn \in Seeds :
               LET seed == SampleSeed(tasks[t].cc, drawn) IN
               /\ sets' = IF seed # NoSeed THEN update_seed(sets, s, seed) ELSE sets
               /\ tasks' = [tasks EXCEPT ![t].pc = "loop", ![t].i = 0,
                                         ![t].n = n, ![t].seed = seed]
  /\ UNCHANGED << numSets, stamps, spawned, calls, handled >>

\* mutant of SampleCurrentSeed: the offset is the row's number, as in the full
\* stage
SampleCurrentSeed_ByNumber(seed, i, number, drawn) ==
  IF seed # NoSeed THEN seed + number ELSE drawn

\* current_seed of the sample loop, line 282; i is the enumerate index
SampleCurrentSeed(seed, i, number, drawn) ==
  IF seed # NoSeed THEN seed + i ELSE drawn

\* mutant of ReferenceArg: the reference image is passed whenever the Set has
\* one
ReferenceArg_Always(character_consistency, reference_image_path) ==
  reference_image_path

\* reference_image_path argument of generate_image, lines 292 and 427: the
\* Set's path under character consistency, None otherwise.  stamp_set is the
\* row of the thread's session, reloaded after each of its commits.
ReferenceArg(character_consistency, reference_image_path) ==
  IF character_consistency THEN reference_image_path ELSE FALSE

\* the Image Client call is recorded when it is made under a base seed
Record(t, s, number, cur) ==
  IF tasks[t].seed # NoSeed
  THEN calls \cup {[set |-> s, number |-> number, seed |-> cur,
                    base |-> tasks[t].seed]}
  ELSE calls

\* mutant of SampleCall: a row that has an image is passed over, as in the
\* full stage
SampleCall_SkipsDone(t) ==
  /\ tasks[t].kind = "sample" /\ tasks[t].pc = "loop"
  /\ tasks[t].i < tasks[t].n
  /\ LET s == tasks[t].set
         number == stamps[s][tasks[t].i + 1].number
     IN IF stamps[s][tasks[t].i + 1].image_path # NoPath
        THEN /\ tasks' = [tasks EXCEPT ![t].i = @ + 1]
             /\ UNCHANGED calls
        ELSE \E drawn \in Seeds, delivered \in BOOLEAN :
          LET cur == SampleCurrentSeed(tasks[t].seed, tasks[t].i, number, drawn) IN
          /\ tasks' = [tasks EXCEPT ![t] =
                         notify_slack(
                           [@ EXCEPT !.pc = "calling", !.cur = cur,
                                     !.ref = ReferenceArg(
                                               sets[s].character_consistency,
                                               sets[s].reference_image_path)],
                           "progress", delivered)]
          /\ calls' = Record(t, s, number, cur)
  /\ UNCHANGED << numSets, sets, stamps, spawned, handled >>

\* generate_sample_stamps.run_in_background, lines 278-293: the call is issued
SampleCall(t) ==
  /\ tasks[t].kind = "sample" /\ tasks[t].pc = "loop"
  /\ tasks[t].i < tasks[t].n
  /\ LET s == tasks[t].set
         number == stamps[s][tasks[t].i + 1].number
     IN \E drawn \in Seeds, delivered \in BOOLEAN :
          LET cur == SampleCurrentSeed(tasks[t].seed, tasks[t].i, number, drawn) IN
          /\ tasks' = [tasks EXCEPT ![t] =
                         notify_slack(
                           [@ EXCEPT !.pc = "calling", !.cur = cur,
                                     !.ref = ReferenceArg(
                                               sets[s].character_consistency,
                                               sets[s].reference_image_path)],
                           "progress", delivered)]
          /\ calls' = Record(t, s, number, cur)
  /\ UNCHANGED << numSets, sets, stamps, spawned, handled >>

\* mutant of Result: a failed call ends the stage
Result_FailedCallAborts(t) ==
  LET s == tasks[t].set
      j == tasks[t].i + 1
      number == stamps[s][j].number
  IN \/ /\ \E delivered \in BOOLEAN :
             tasks' = [tasks EXCEPT ![t] =
                         notify_slack(Finish(t, "call"), "failure", delivered)]
        /\ UNCHANGED stamps
     \/ /\ stamps' = update_image_path(stamps, s, j, save_stamp_image(s, number))
        /\ tasks' = [tasks EXCEPT ![t].pc = "loop", ![t].i = j,
                                  ![t].cur = NoSeed, ![t].ref = FALSE,
                                  ![t].note = "", ![t].lost = FALSE,
                                  ![t].stale = FALSE,
                                  ![t].generated =
                                     IF tasks[t].kind = "sample"
                                     THEN @ \cup {j} ELSE @]
     \/ /\ \E delivered \in BOOLEAN :
             tasks' = [tasks EXCEPT ![t] =
                         notify_slack(Finish(t, "save"), "failure", delivered)]
        /\ UNCHANGED stamps

\* mutant of Result: a failed call clears the path of its row
Result_FailedCallClearsPath(t) ==
  LET s == tasks[t].set
      j == tasks[t].i + 1
      number == stamps[s][j].number
  IN \/ /\ tasks' = [tasks EXCEPT ![t].pc = "loop", ![t].i = j,
                                  ![t].cur = NoSeed, ![t].ref = FALSE,
                                  ![t].note = "", ![t].lost = FALSE]
        /\ stamps' = update_image_path(stamps, s, j, NoPath)
     \/ /\ stamps' = update_image_path(stamps, s, j, save_stamp_image(s, number))
        /\ tasks' = [tasks EXCEPT ![t].pc = "loop", ![t].i = j,
                                  ![t].cur = NoSeed, ![t].ref = FALSE,
                                  ![t].note = "", ![t].lost = FALSE,
                                  ![t].stale = FALSE,
                                  ![t].generated =
                                     IF tasks[t].kind = "sample"
                                     THEN @ \cup {j} ELSE @]
     \/ /\ \E delivered \in BOOLEAN :
             tasks' = [tasks EXCEPT ![t] =
                         notify_slack(Finish(t, "save"), "failure", delivered)]
        /\ UNCHANGED stamps

\* lines 295-306 and 430-435: the call returned; image_data is None (failed),
\* or it is saved and its path persisted (the sample stage also appends the
\* row to generated_stamps), or saving it raises and the except clause of the
\* stage notifies the failure
Result(t) ==
  LET s == tasks[t].set
      j == tasks[t].i + 1
      number == stamps[s][j].number
  IN \/ /\ tasks' = [tasks EXCEPT ![t].pc = "loop", ![t].i = j,
                                  ![t].cur = NoSeed, ![t].ref = FALSE,
                                  ![t].note = "", ![t].lost = FALSE]
        /\ UNCHANGED stamps
     \/ /\ stamps' = update_image_path(stamps, s, j, save_stamp_image(s, number))
        /\ tasks' = [tasks EXCEPT ![t].pc = "loop", ![t].i = j,
                                  ![t].cur = NoSeed, ![t].ref = FALSE,
                                  ![t].note = "", ![t].lost = FALSE,
                                  ![t].stale = FALSE,
                                  ![t].generated =
                                     IF tasks[t].kind = "sample"
                                     THEN @ \cup {j} ELSE @]
     \/ /\ \E delivered \in BOOLEAN :
             tasks' = [tasks EXCEPT ![t] =
                         notify_slack(Finish(t, "save"), "failure", delivered)]
        /\ UNCHANGED stamps

SampleResult(t) ==
  /\ tasks[t].kind = "sample" /\ tasks[t].pc = "calling"
  /\ Result(t)
  /\ UNCHANGED << numSets, sets, spawned, calls, handled >>

\* mutant of SampleFinish: a grid that cannot be built ends the thread
\* without a notification
SampleFinish_SilentGridError(t) ==
  /\ tasks[t].kind = "sample" /\ tasks[t].pc = "loop"
  /\ tasks[t].i = tasks[t].n
  /\ \E delivered \in BOOLEAN :
       \/ /\ sets' = update_status(sets, tasks[t].set, "samples_review")
          /\ tasks' = [tasks EXCEPT ![t] =
                         notify_slack(Finish(t, ""), "samples", delivered)]
       \/ /\ tasks[t].generated # {}
          /\ tasks' = [tasks EXCEPT ![t] = Finish(t, "grid")]
          /\ UNCHANGED sets
  /\ UNCHANGED << numSets, stamps, spawned, calls, handled >>

\* generate_sample_stamps.run_in_background, lines 308-379: the grid, the
\* status and the final notification; building the grid of a non-empty batch
\* may raise, and the except clause notifies the failure
SampleFinish(t) ==
  /\ tasks[t].kind = "sample" /\ tasks[t].pc = "loop"
  /\ tasks[t].i = tasks[t].n
  /\ \E delivered \in BOOLEAN :
       \/ /\ sets' = update_status(sets, tasks[t].set, "samples_review")
          /\ tasks' = [tasks EXCEPT ![t] =
                         notify_slack(Finish(t, ""), "samples", delivered)]
       \/ /\ tasks[t].generated # {}
          /\ tasks' = [tasks EXCEPT ![t] =
                         notify_slack(Finish(t, "grid"), "failure", delivered)]
          /\ UNCHANGED sets
  /\ UNCHANGED << numSets, stamps, spawned, calls, handled >>

\* generate_full_stamps.run_in_background, lines 386-396; update_status
\* refreshes stamp_set, the row the thread reads its flag and seed from
FullStart(t) ==
  /\ tasks[t].kind = "full" /\ tasks[t].pc = "start"
  /\ LET s == tasks[t].set IN
       IF ~Exists(s)
       THEN /\ tasks' = [tasks EXCEPT ![t] = Finish(t, "")]
            /\ UNCHANGED sets
       ELSE /\ sets' = update_status(sets, s, "full_generating")
            /\ tasks' = [tasks EXCEPT ![t].pc = "select",
                                      ![t].cc = sets[s].character_consistency,
                                      ![t].seed = sets[s].seed]
  /\ UNCHANGED << numSets, stamps, spawned, calls, handled >>

\* mutant of FullSeed: the base seed is used whatever the flag says
FullSeed_IgnoresFlag(cc, persisted, drawn) ==
  IF persisted # NoSeed THEN persisted ELSE drawn

\* base seed of the full stage, lines 405-409: stamp_set.seed or a fresh
\* draw, which is not persisted
FullSeed(cc, persisted, drawn) ==
  IF cc
  THEN IF persisted # NoSeed THEN persisted ELSE drawn
  ELSE NoSeed

\* rows of Set s that have an image_path
WithImage(s) == {j \in 1..Len(stamps[s]) : stamps[s][j].image_path # NoPath}

\* generate_full_stamps.run_in_background, lines 398-409
FullSelect(t) ==
  /\ tasks[t].kind = "full" /\ tasks[t].pc = "select"
  /\ LET s == tasks[t].set IN
       \E drawn \in Seeds :
         tasks' = [tasks EXCEPT ![t].pc = "loop", ![t].i = 0,
                                ![t].n = Len(stamps[s]),
                                ![t].seed =
                                   FullSeed(tasks[t].cc, tasks[t].seed, drawn),
                                ![t].had = WithImage(s), ![t].stale = TRUE]
  /\ UNCHANGED << numSets, sets, stamps, spawned, calls, handled >>

\* mutant of HasImage: no row is taken as done
HasImage_NeverDone(t, j) == FALSE

\* stamp.image_path as the thread's session sees it, line 412: the row as
\* loaded by get_by_set until the session commits, the stored row afterwards
HasImage(t, j) ==
  IF tasks[t].stale THEN j \in tasks[t].had
  ELSE stamps[tasks[t].set][j].image_path # NoPath

\* mutant of FullSkip: the loop stays at a done Item
FullSkip_Stays(t) ==
  /\ tasks[t].kind = "full" /\ tasks[t].pc = "loop"
  /\ tasks[t].i < tasks[t].n
  /\ HasImage(t, tasks[t].i + 1)
  /\ UNCHANGED vars

\* generate_full_stamps.run_in_background, lines 411-414: skip a done Item
FullSkip(t) ==
  /\ tasks[t].kind = "full" /\ tasks[t].pc = "loop"
  /\ tasks[t].i < tasks[t].n
  /\ HasImage(t, tasks[t].i + 1)
  /\ tasks' = [tasks EXCEPT ![t].i = @ + 1]
  /\ UNCHANGED << numSets, sets, stamps, spawned, calls, handled >>

\* line 417: a progress notification is due at every fifth row and at the
\* last one; i is the enumerate index
ProgressDue(i, n) == (i + 1) % 5 = 0 \/ i = n - 1

\* line 418: the count a progress notification reports; i is the enumerate
\* index
ProgressCount(i) == i + 1

\* current_seed of the full loop, line 421
FullCurrentSeed(seed, i, number, drawn) ==
  IF seed # NoSeed THEN seed + number ELSE drawn

\* generate_full_stamps.run_in_background, lines 416-428: the call is issued
FullCall(t) ==
  /\ tasks[t].kind = "full" /\ tasks[t].pc = "loop"
  /\ tasks[t].i < tasks[t].n
  /\ ~HasImage(t, tasks[t].i + 1)
  /\ LET s == tasks[t].set
         number == stamps[s][tasks[t].i + 1].number
         due == ProgressDue(tasks[t].i, tasks[t].n)
     IN \E drawn \in Seeds, delivered \in BOOLEAN :
          LET cur == FullCurrentSeed(tasks[t].seed, tasks[t].i, number, drawn)
              called == [tasks[t] EXCEPT
                           !.pc = "calling", !.cur = cur,
                           !.ref = ReferenceArg(sets[s].character_consistency,
                                                sets[s].reference_image_path)]
          IN
          /\ due \/ delivered
          /\ tasks' = [tasks EXCEPT ![t] =
                         IF due THEN notify_slack(called, "progress", delivered)
                         ELSE called]
          /\ calls' = Record(t, s, number, cur)
  /\ UNCHANGED << numSets, sets, stamps, spawned, handled >>

FullResult(t) ==
  /\ tasks[t].kind = "full" /\ tasks[t].pc = "calling"
  /\ Result(t)
  /\ UNCHANGED << numSets, sets, spawned, calls, handled >>

\* generate_full_stamps.run_in_background, lines 437-451 and 474-478: grid,
\* export and the export flag; the export (it makes a directory) may raise,
\* and the except clause notifies the failure
FullExport(t) ==
  /\ tasks[t].kind = "full" /\ tasks[t].pc = "loop"
  /\ tasks[t].i = tasks[t].n
  /\ \/ /\ sets' = mark_lora_exported(sets, tasks[t].set)
        /\ tasks' = [tasks EXCEPT ![t].pc = "complete"]
     \/ /\ \E delivered \in BOOLEAN :
             tasks' = [tasks EXCEPT ![t] =
                         notify_slack(Finish(t, "export"), "failure", delivered)]
        /\ UNCHANGED sets
  /\ UNCHANGED << numSets, stamps, spawned, calls, handled >>

\* mutant of FullComplete: the status written is not a value of STATUSES
FullComplete_Misspelt(t) ==
  /\ tasks[t].kind = "full" /\ tasks[t].pc = "complete"
  /\ sets' = update_status(sets, tasks[t].set, "complete")
  /\ \E delivered \in BOOLEAN :
       tasks' = [tasks EXCEPT ![t] =
                   notify_slack(Finish(t, ""), "completed", delivered)]
  /\ UNCHANGED << numSets, stamps, spawned, calls, handled >>

\* generate_full_stamps.run_in_background, lines 454-472: the status and the
\* final notification
FullComplete(t) ==
  /\ tasks[t].kind = "full" /\ tasks[t].pc = "complete"
  /\ sets' = update_status(sets, tasks[t].set, "completed")
  /\ \E delivered \in BOOLEAN :
       tasks' = [tasks EXCEPT ![t] =
                   notify_slack(Finish(t, ""), "completed", delivered)]
  /\ UNCHANGED << numSets, stamps, spawned, calls, handled >>

\* ------------------------------------------------------------ specification
\* One Set, every operation at any time.  The stamp types drawn are one per
\* value of the character-consistency flag.
BothPolicies == {"animal", "concept"}

\* The ids a caller can pass: an id is a fresh uuid4, so it is known only once
\* its Set is inserted; the last id is never inserted where one Set is, and
\* stands for the ids that do not exist.
Callable == (1..numSets) \cup {MaxSets}

Next ==
  \/ numSets = 0 /\ create_new_set
  \/ \E s \in SetIds, g \in BothPolicies : select_stamp_type(s, g)
  \/ \E s \in SetIds, q \in Numberings : StampCRUD_create(s, q, {})
  \/ \E s \in SetIds : StampSetCRUD_update_character_description(s)
  \/ \E s \in SetIds : export_lora(s)
  \/ \E s \in SetIds : approve_direction(s)
  \/ \E s \in SetIds : start_direction_workflow(s, FALSE)
  \/ \E s \in Callable : regenerate_phrases(s)
  \/ \E s \in Callable : generate_sample_stamps(s)
  \/ \E s \in Callable : generate_full_stamps(s)
  \/ \E t \in TaskIds : ProposalStart(t)
  \/ \E t \in TaskIds : ProposalResult(t)
  \/ \E t \in TaskIds : PhraseStart(t)
  \/ \E t \in TaskIds : PhraseResult(t)
  \/ \E t \in TaskIds : SampleStart(t)
  \/ \E t \in TaskIds : SampleSelect(t)
  \/ \E t \in TaskIds : SampleCall(t)
  \/ \E t \in TaskIds : SampleResult(t)
  \/ \E t \in TaskIds : SampleFinish(t)
  \/ \E t \in TaskIds : FullStart(t)
  \/ \E t \in TaskIds : FullSelect(t)
  \/ \E t \in TaskIds : FullSkip(t)
  \/ \E t \in TaskIds : FullCall(t)
  \/ \E t \in TaskIds : FullResult(t)
  \/ \E t \in TaskIds : FullExport(t)
  \/ \E t \in TaskIds : FullComplete(t)

Spec == Init /\ [][Next]_vars

\* The approval-gated run of spec section 8: the type of a Set is selected and
\* its SampleSize or SampleSize + 1 rows are inserted before the first stage is
\* triggered, and a stage is triggered only when no thread is in flight.
Quiet == \A t \in TaskIds : ~InFlight(t)

SeqRows == {SampleSize, SampleSize + 1}

NextSeq ==
  \/ numSets = 0 /\ create_new_set
  \/ \E s \in SetIds, g \in BothPolicies :
       spawned = 0 /\ select_stamp_type(s, g)
  \/ \E s \in SetIds : spawned = 0 /\ StampSetCRUD_update_reference_image(s)
  \/ \E s \in SetIds, n \in SeqRows, flagged \in {{}, 1..SampleSize} :
       spawned = 0 /\ StampCRUD_create(s, Contiguous(n), flagged)
  \/ \E s \in Callable : Quiet /\ generate_sample_stamps(s)
  \/ \E s \in Callable : Quiet /\ generate_full_stamps(s)
  \/ \E t \in TaskIds : SampleStart(t)
  \/ \E t \in TaskIds : SampleSelect(t)
  \/ \E t \in TaskIds : SampleCall(t)
  \/ \E t \in TaskIds : SampleResult(t)
  \/ \E t \in TaskIds : SampleFinish(t)
  \/ \E t \in TaskIds : FullStart(t)
  \/ \E t \in TaskIds : FullSelect(t)
  \/ \E t \in TaskIds : FullSkip(t)
  \/ \E t \in TaskIds : FullCall(t)
  \/ \E t \in TaskIds : FullResult(t)
  \/ \E t \in TaskIds : FullExport(t)
  \/ \E t \in TaskIds : FullComplete(t)

SpecSeq == Init /\ [][NextSeq]_vars

\* Several Sets: the store operations and the direction and phrase stages.
NextSets ==
  \/ create_new_set
  \/ \E s \in SetIds, g \in Genres : select_stamp_type(s, g)
  \/ \E s \in SetIds, q \in Numberings : StampCRUD_create(s, q, {})
  \/ \E s \in SetIds : StampSetCRUD_update_character_description(s)
  \/ \E s \in SetIds : approve_direction(s)
  \/ \E t \in TaskIds : PhraseStart(t)
  \/ \E t \in TaskIds : PhraseResult(t)

SpecSets == Init /\ [][NextSets]_vars

\* The approval-gated run of the two image stages on a Set of at most
\* MaxStamps rows and any stamp type, with its threads scheduled: a started
\* thread that can take a step takes it (the Image Client call returns, it
\* has a timeout).
NextLive ==
  \/ numSets = 0 /\ create_new_set
  \/ \E s \in SetIds, g \in Genres : spawned = 0 /\ select_stamp_type(s, g)
  \/ \E s \in SetIds, q \in Numberings :
       spawned = 0 /\ StampCRUD_create(s, q, {})
  \/ \E s \in Callable : Quiet /\ generate_sample_stamps(s)
  \/ \E s \in Callable : Quiet /\ generate_full_stamps(s)
  \/ \E t \in TaskIds : SampleStart(t)
  \/ \E t \in TaskIds : SampleSelect(t)
  \/ \E t \in TaskIds : SampleCall(t)
  \/ \E t \in TaskIds : SampleResult(t)
  \/ \E t \in TaskIds : SampleFinish(t)
  \/ \E t \in TaskIds : FullStart(t)
  \/ \E t \in TaskIds : FullSelect(t)
  \/ \E t \in TaskIds : FullSkip(t)
  \/ \E t \in TaskIds : FullCall(t)
  \/ \E t \in TaskIds : FullResult(t)
  \/ \E t \in TaskIds : FullExport(t)
  \/ \E t \in TaskIds : FullComplete(t)

\* the steps of thread t
ThreadStep(t) ==
  \/ SampleStart(t) \/ SampleSelect(t) \/ SampleCall(t)
  \/ SampleResult(t) \/ SampleFinish(t)
  \/ FullStart(t) \/ FullSelect(t) \/ FullSkip(t) \/ FullCall(t)
  \/ FullResult(t) \/ FullExport(t) \/ FullComplete(t)

SpecLive ==
  Init /\ [][NextLive]_vars /\ \A t \in TaskIds : WF_vars(ThreadStep(t))

\* One Set: the direction stage with and without a reference image, the
\* phrase stage, and the requests for one Item of a Set whose samples are
\* shown.
NextDir ==
  \/ numSets = 0 /\ create_new_set
  \/ \E s \in SetIds, g \in BothPolicies : select_stamp_type(s, g)
  \/ \E s \in SetIds, q \in Numberings : StampCRUD_create(s, q, {})
  \/ \E s \in SetIds : StampSetCRUD_update_character_description(s)
  \/ \E s \in SetIds, has_reference_image \in BOOLEAN :
       start_direction_workflow(s, has_reference_image)
  \/ \E s \in SetIds : approve_direction(s)
  \/ \E s \in Callable : generate_sample_stamps(s)
  \/ \E s \in SetIds, j \in 1..MaxStamps : regenerate_stamp(s, j)
  \/ \E t \in TaskIds : ProposalStart(t)
  \/ \E t \in TaskIds : ProposalResult(t)
  \/ \E t \in TaskIds : PhraseStart(t)
  \/ \E t \in TaskIds : PhraseResult(t)
  \/ \E t \in TaskIds : SampleStart(t)
  \/ \E t \in TaskIds : SampleSelect(t)
  \/ \E t \in TaskIds : SampleCall(t)
  \/ \E t \in TaskIds : SampleResult(t)
  \/ \E t \in TaskIds : SampleFinish(t)

SpecDir == Init /\ [][NextDir]_vars

\* ------------------------------------------------------------------ claims
\* the transition graph of spec section 4.1
Edges ==
  { << STATUSES[k], STATUSES[k + 1] >> : k \in 1..(Len(STATUSES) - 1) }
    \cup { << "samples_review", "samples_generating" >>,
           << "patterns_approved", "patterns_pending" >> }

\* C1: every status change of a Set follows an edge of the transition graph
\* (so an operation that its status does not permit changes nothing).
C1_StatusFollowsGraph ==
  [][\A s \in SetIds :
       (Exists(s) /\ sets'[s].status # sets[s].status)
         => << sets[s].status, sets'[s].status >> \in Edges]_vars

ThreadsOf(s) == {t \in TaskIds : InFlight(t) /\ tasks[t].set = s}

\* C2: at most one background thread is in flight per Set.
C2_OneTaskPerSet ==
  \A s \in SetIds : Exists(s) => Cardinality(ThreadsOf(s)) <= 1

\* C3: of two concurrent generate_full_stamps triggers of one Set only one
\* generates: never are two full-stage threads of a Set both inside an Image
\* Client call.
C3_OneFullGenerates ==
  \A t1, t2 \in TaskIds :
    (/\ t1 # t2
     /\ tasks[t1].kind = "full" /\ tasks[t2].kind = "full"
     /\ tasks[t1].set = tasks[t2].set
     /\ tasks[t1].pc = "calling")
      => tasks[t2].pc # "calling"

\* C4: idempotent resume.  A full-stage thread issues an Image Client call only
\* for a row that had no image_path when the thread loaded the rows of its Set,
\* and no step changes an image_path that is already set.
C4_IdempotentResume ==
  [][/\ \A t \in TaskIds :
          (tasks[t].kind = "full" /\ tasks[t].pc = "loop"
             /\ tasks'[t].pc = "calling")
            => (tasks[t].i + 1) \notin tasks[t].had
     /\ \A s \in SetIds : \A j \in 1..Len(stamps[s]) :
          stamps[s][j].image_path # NoPath
            => stamps'[s][j].image_path = stamps[s][j].image_path]_vars

\* C4 witness: a resumed full stage has skipped a finished row and is calling
\* the Image Client for a missing one.
C4_Witness ==
  \E t \in TaskIds :
    /\ tasks[t].kind = "full" /\ tasks[t].pc = "calling"
    /\ (tasks[t].i + 1) \notin tasks[t].had
    /\ \E j \in tasks[t].had :
         j < tasks[t].i + 1
         /\ stamps[tasks[t].set][j].image_path
              = save_stamp_image(tasks[t].set, stamps[tasks[t].set][j].number)

\* C5: once a Set's persisted base seed is set, no step changes it.
C5_SeedSetOnce ==
  [][\A s \in SetIds :
       sets[s].seed # NoSeed => sets'[s].seed = sets[s].seed]_vars

\* C6: under character consistency and an unaltered persisted base seed S,
\* every Image Client call for the row with ordinal k uses seed S + k, in the
\* sample stage and in the full stage alike.
C6_SeedIsBasePlusOrdinal ==
  \A t \in TaskIds :
    (/\ tasks[t].pc = "calling"
     /\ tasks[t].seed # NoSeed
     /\ sets[tasks[t].set].seed = tasks[t].seed)
      => tasks[t].cur
           = sets[tasks[t].set].seed
               + stamps[tasks[t].set][tasks[t].i + 1].number

\* C7: under one base seed, Image Client calls for rows of a Set with different
\* ordinals never use the same seed, over the calls of both stages.
C7_DistinctOrdinalsDistinctSeeds ==
  \A c1, c2 \in calls :
    (c1.set = c2.set /\ c1.base = c2.base /\ c1.number # c2.number)
      => c1.seed # c2.seed

\* C8 (as stated): in the sample stage under base seed S the rows with ordinals
\* 1..5 are called with S, S+1, .., S+4, and every row whose Image Client call
\* returned an image has a non-empty image_path.
SampleSeedsFromBase ==
  \A t \in TaskIds :
    (tasks[t].kind = "sample" /\ tasks[t].pc = "calling"
       /\ tasks[t].seed # NoSeed)
      => tasks[t].cur
           = tasks[t].seed + stamps[tasks[t].set][tasks[t].i + 1].number - 1

\* rows of a sample thread whose Image Client call returned an image: those it
\* saved, and the one whose save raised
Succeeded(t) ==
  tasks[t].generated
    \cup (IF tasks[t].err = "save" THEN {tasks[t].i + 1} ELSE {})

C8_SuccessfulCallsHavePaths ==
  /\ SampleSeedsFromBase
  /\ \A t \in TaskIds :
       tasks[t].kind = "sample"
         => \A j \in Succeeded(t) :
              stamps[tasks[t].set][j].image_path # NoPath

\* C8 (amended): the seeds are S, S+1, .., S+4 for ordinals 1..5, and every row
\* whose image was saved without error (a row of generated_stamps) has a
\* non-empty image_path.
C8_SavedCallsHavePaths ==
  /\ SampleSeedsFromBase
  /\ \A t \in TaskIds :
       tasks[t].kind = "sample"
         => \A j \in tasks[t].generated :
              stamps[tasks[t].set][j].image_path # NoPath

\* C8 witness: a sample stage under base seed S has generated the rows 1..5,
\* calling row 1 with S and row 5 with S+4.
C8_Witness ==
  \E t \in TaskIds :
    /\ tasks[t].kind = "sample" /\ tasks[t].pc = "loop"
    /\ tasks[t].seed # NoSeed
    /\ tasks[t].generated = 1..SampleSize
    /\ \A k \in 1..SampleSize :
         /\ [set |-> tasks[t].set, number |-> k,
             seed |-> tasks[t].seed + k - 1, base |-> tasks[t].seed] \in calls
         /\ stamps[tasks[t].set][k].image_path # NoPath

\* C9: the base seed a stage derives an Item seed from is the base seed
\* persisted on the Set.
C9_BaseSeedIsPersisted ==
  \A t \in TaskIds :
    (tasks[t].pc = "calling" /\ tasks[t].seed # NoSeed)
      => tasks[t].seed = sets[tasks[t].set].seed

\* C10: a Set in status completed has its export flag set.
C10_CompletedIsExported ==
  \A s \in SetIds :
    (Exists(s) /\ sets[s].status = "completed") => sets[s].lora_exported

\* C10 witness: a full stage has run to completion.
C10_Witness ==
  \E s \in SetIds, t \in TaskIds :
    /\ Exists(s) /\ sets[s].status = "completed" /\ sets[s].lora_exported
    /\ tasks[t].kind = "full" /\ tasks[t].set = s /\ tasks[t].pc = "done"
    /\ tasks[t].err = ""

\* C11: a generating status is re-enterable.  Whatever status an existing Set
\* has, a sample or full thread started for it enters its stage: it sets the
\* generating status and goes on to select the rows.
C11_GeneratingIsReenterable ==
  [][\A t \in TaskIds :
       (/\ tasks[t].kind \in {"sample", "full"}
        /\ tasks[t].pc = "start"
        /\ Exists(tasks[t].set)
        /\ tasks'[t] # tasks[t])
         => /\ tasks'[t].pc = "select"
            /\ sets'[tasks[t].set].status =
                 IF tasks[t].kind = "sample" THEN "samples_generating"
                 ELSE "full_generating"]_vars

\* C11 witness: a sample stage was ended by a storage error, and the stage
\* triggered again for the same Set has brought it to samples_review.
C11_Witness ==
  \E t1, t2 \in TaskIds :
    /\ t1 < t2
    /\ tasks[t1].kind = "sample" /\ tasks[t2].kind = "sample"
    /\ tasks[t1].set = tasks[t2].set /\ Exists(tasks[t1].set)
    /\ tasks[t1].pc = "done" /\ tasks[t1].err \in {"save", "grid"}
    /\ tasks[t2].pc = "done" /\ tasks[t2].err = ""
    /\ tasks[t2].note = "samples"
    /\ sets[tasks[t1].set].status = "samples_review"

\* C12: a phrase thread that received n > 0 phrases leaves the Set with the
\* rows 1..n and in status patterns_approved.
C12_PhrasesBecomeItems ==
  [][\A t \in TaskIds :
       (/\ tasks[t].kind = "phrase"
        /\ tasks[t].pc = "prompting"
        /\ tasks'[t].pc = "done"
        /\ tasks'[t].n > 0)
         => /\ stamps'[tasks[t].set] =
                 [k \in 1..tasks'[t].n |-> Stamp(k)]
            /\ sets'[tasks[t].set].status = "patterns_approved"]_vars

\* C13: a phrase or proposal thread whose Prompt Client call returned nothing
\* ends with a failure notification and leaves every Set and Item as it was.
C13_EmptyResultChangesNothing ==
  [][\A t \in TaskIds :
       (/\ tasks[t].kind \in {"phrase", "proposal"}
        /\ tasks[t].pc = "prompting"
        /\ tasks'[t].pc = "done"
        /\ tasks'[t].n = 0)
         => /\ tasks'[t].note = "failure"
            /\ tasks'[t].err = ""
            /\ UNCHANGED << numSets, sets, stamps >>]_vars

\* C13 witness: after a phrase thread ended on an empty result, the phrase
\* stage was triggered again for the same Set and returned phrases.
C13_Witness ==
  \E t1, t2 \in TaskIds :
    /\ t1 < t2
    /\ tasks[t1].kind = "phrase" /\ tasks[t2].kind = "phrase"
    /\ tasks[t1].set = tasks[t2].set /\ Exists(tasks[t1].set)
    /\ tasks[t1].pc = "done" /\ tasks[t1].n = 0
    /\ tasks[t1].note = "failure"
    /\ tasks[t2].pc = "done" /\ tasks[t2].n > 0
    /\ tasks[t2].note = "phrases"
    /\ Len(stamps[tasks[t1].set]) > 0

C15_ApprovePersistsDescription ==
  [][\A s \in SetIds :
       (/\ Exists(s)
        /\ sets'[s].status # sets[s].status
        /\ spawned' = spawned + 1
        /\ tasks'[spawned'].kind = "phrase"
        /\ tasks'[spawned'].set = s)
         => /\ sets'[s].status = "patterns_pending"
            /\ sets'[s].character_description]_vars

\* C16: an id that does not exist has no row and no Items, no update of the
\* store writes under it, no proposal thread runs for it, and a thread started
\* for it ends before it acts.
C16_AbsentIdIsUntouched ==
  \A s \in SetIds :
    ~Exists(s) =>
      /\ sets[s] = StampSet
      /\ stamps[s] = << >>
      /\ update_status(sets, s, "completed") = sets
      /\ update_seed(sets, s, 1) = sets
      /\ update_character_description(sets, s) = sets
      /\ mark_lora_exported(sets, s) = sets
      /\ \A t \in TaskIds :
           tasks[t].set = s
             => /\ tasks[t].kind # "proposal"
                /\ tasks[t].pc \in {"start", "done"}

\* C16 witness: a sample thread and a phrase thread started for an id that
\* does not exist have ended, the phrase thread with a failure notification.
C16_Witness ==
  \E t1, t2 \in TaskIds :
    /\ ~Exists(tasks[t1].set) /\ ~Exists(tasks[t2].set)
    /\ tasks[t1].kind = "sample" /\ tasks[t1].pc = "done"
    /\ tasks[t2].kind = "phrase" /\ tasks[t2].pc = "done"
    /\ tasks[t2].note = "failure"

\* C17: a step that inserts a Set inserts exactly one, under the next unused
\* id, in status direction_pending with no base seed and no Items, and leaves
\* every existing Set and its Items as they were; an id, once in use, stays.
C17_CreateInsertsOneFreshSet ==
  [][/\ numSets' >= numSets
     /\ numSets' # numSets =>
          /\ numSets' = numSets + 1
          /\ sets'[numSets'].status = "direction_pending"
          /\ sets'[numSets'].seed = NoSeed
          /\ stamps'[numSets'] = << >>
          /\ \A s \in 1..numSets :
               sets'[s] = sets[s] /\ stamps'[s] = stamps[s]]_vars

\* C17 witness: a second Set was inserted next to a Set that has Items and an
\* approved direction.
C17_Witness ==
  /\ numSets = 2
  /\ sets[1].status = "direction_approved" /\ Len(stamps[1]) > 0
  /\ sets[2].status = "direction_pending" /\ sets[2].seed = NoSeed
  /\ stamps[2] = << >>

\* C18: when an Image Client call has returned, the thread either goes on to
\* the next row of the same batch - with the row's path as it was, or the
\* path of the saved image - or it was ended by the save raising; a failed
\* call never ends it.
C18_FailedCallGoesOn ==
  [][\A t \in TaskIds :
       (/\ tasks[t].kind \in {"sample", "full"}
        /\ tasks[t].pc = "calling"
        /\ tasks'[t] # tasks[t])
         => LET s == tasks[t].set
                j == tasks[t].i + 1
            IN \/ /\ tasks'[t].pc = "loop"
                  /\ tasks'[t].i = j
                  /\ tasks'[t].n = tasks[t].n
                  /\ stamps'[s][j].image_path
                       \in {stamps[s][j].image_path,
                            save_stamp_image(s, stamps[s][j].number)}
               \/ /\ tasks'[t].pc = "done"
                  /\ tasks'[t].err = "save"
                  /\ stamps' = stamps]_vars

\* C18 witness: a sample thread has been through its whole batch; the call
\* for one row failed, the row has no path, and a later row was generated.
C18_Witness ==
  \E t \in TaskIds :
    /\ tasks[t].kind = "sample" /\ tasks[t].pc = "loop"
    /\ tasks[t].i = tasks[t].n
    /\ \E j, k \in 1..tasks[t].n :
         /\ j < k
         /\ j \notin tasks[t].generated
         /\ stamps[tasks[t].set][j].image_path = NoPath
         /\ k \in tasks[t].generated
         /\ stamps[tasks[t].set][k].image_path # NoPath

\* C19: no thread is ended by a notification that was not delivered; after
\* one the thread is where a delivered notification leaves it, inside the
\* Image Client call the notification announced.
C19_LostNotificationIsHarmless ==
  \A t \in TaskIds :
    /\ tasks[t].err # "notify"
    /\ tasks[t].lost =>
         /\ tasks[t].pc = "calling"
         /\ tasks[t].note = "progress"
         /\ sets[tasks[t].set].status \in {"samples_generating",
                                            "full_generating"}

\* C19 witness: a full thread goes on with the call for its last row after
\* its progress notification was not delivered.
C19_Witness ==
  \E t \in TaskIds :
    /\ tasks[t].kind = "full" /\ tasks[t].pc = "calling"
    /\ tasks[t].lost /\ tasks[t].note = "progress"
    /\ tasks[t].i + 1 = tasks[t].n

\* C20: once a Set is completed no step changes its status.
C20_CompletedIsTerminal ==
  [][\A s \in SetIds :
       sets[s].status = "completed" => sets'[s].status = "completed"]_vars

\* the positions of a stage thread between its first read of the Set and its
\* end
Running == {"select", "loop", "calling", "complete"}

\* C21: a stage thread that read the character-consistency flag as disabled
\* holds no base seed after any of its steps, makes each Image Client call
\* with a seed drawn for that call, records no call under a base seed, and
\* never writes the Set's base seed.
C21_DisabledDrawsPerCall ==
  [][\A t \in TaskIds :
       (/\ tasks[t].kind \in {"sample", "full"}
        /\ tasks[t].pc \in Running
        /\ ~tasks[t].cc
        /\ tasks'[t] # tasks[t])
         => /\ tasks'[t].seed = NoSeed
            /\ sets'[tasks[t].set].seed = sets[tasks[t].set].seed
            /\ calls' = calls
            /\ tasks'[t].pc = "calling" => tasks'[t].cur \in Seeds]_vars

\* C21 witness: a full thread of a Set without character consistency is
\* inside the call for its second row with the smallest seed of the draw,
\* while the Set still holds a larger base seed that an earlier sample stage
\* persisted: the call is related to no persisted value.
C21_Witness ==
  \E t \in TaskIds :
    /\ tasks[t].kind = "full" /\ tasks[t].pc = "calling"
    /\ ~tasks[t].cc
    /\ tasks[t].i = 1
    /\ tasks[t].cur = 1
    /\ sets[tasks[t].set].seed = MaxSeed

\* C22: an Image Client call of either image stage carries the reference
\* image only if the Set's character-consistency flag is enabled (and the
\* Set has a reference-image path).
C22_ReferenceOnlyWhenConsistent ==
  \A t \in TaskIds :
    (tasks[t].kind \in {"sample", "full"} /\ tasks[t].pc = "calling")
      => LET s == tasks[t].set IN
         /\ tasks[t].ref => sets[s].character_consistency
         /\ tasks[t].ref => sets[s].reference_image_path
         /\ ~sets[s].character_consistency => ~tasks[t].ref

\* C22 witness: a full thread of a Set that has a reference-image path and
\* no character consistency is inside a call made without the reference.
C22_Witness ==
  \E t \in TaskIds :
    /\ tasks[t].kind = "full" /\ tasks[t].pc = "calling"
    /\ sets[tasks[t].set].reference_image_path
    /\ ~sets[tasks[t].set].character_consistency
    /\ ~tasks[t].ref

\* C23: once the regeneration of one Item has been requested, that Item's
\* retry counter has been incremented.
C23_RegenerationCountsRetry ==
  \A r \in handled :
    r.op = "regenerate_stamp" => stamps[r.set][r.row].retry_count > 0

\* the numbers of the rows of Set s, in order
NumbersOf(T, s) == [j \in 1..Len(T[s]) |-> T[s][j].number]

\* C24: no step deletes a Set or a row, and the rows of a Set change only by
\* an insertion into a Set without rows that is no step of the engine: in
\* such a step no thread moves or starts and no Set field changes.
C24_EngineKeepsTheRows ==
  [][/\ numSets' >= numSets
     /\ \A s \in SetIds :
          \/ NumbersOf(stamps', s) = NumbersOf(stamps, s)
          \/ /\ stamps[s] = << >>
             /\ UNCHANGED << numSets, sets, tasks, spawned, calls, handled >>]_vars

\* C24 witness: the sample stage and then the full stage have run to the end
\* on a Set of MaxStamps rows, which are all there with their artifacts.
C24_Witness ==
  \E t \in TaskIds :
    /\ tasks[t].kind = "full" /\ tasks[t].pc = "done" /\ tasks[t].err = ""
    /\ Exists(tasks[t].set)
    /\ sets[tasks[t].set].seed # NoSeed
    /\ sets[tasks[t].set].status = "completed"
    /\ Len(stamps[tasks[t].set]) = MaxStamps
    /\ WithImage(tasks[t].set) = 1..MaxStamps

\* C25: the status of every Set is one of the nine values of STATUSES.
C25_StatusIsEnumerated ==
  \A s \in SetIds :
    \E k \in 1..Len(STATUSES) : sets[s].status = STATUSES[k]

\* C25 witness: the engine has written the status of a Set through both image
\* stages; the Set is completed and the last full thread has ended after a
\* thread before it.
C25_Witness ==
  /\ Len(STATUSES) = 9
  /\ \E t \in TaskIds :
       /\ t > 1
       /\ tasks[t].kind = "full" /\ tasks[t].pc = "done"
       /\ sets[tasks[t].set].status = "completed"
       /\ tasks[1].kind = "sample" /\ tasks[1].pc = "done"
       /\ tasks[1].set = tasks[t].set

\* the positions of a thread inside a Prompt Client or Image Client call
Calling == {"prompting", "calling"}

\* C26: a trigger only starts a thread: the step that starts one leaves it
\* at its first instruction, moves no other thread and makes no call; a call
\* is entered only by a step of a thread that was started before; and while
\* a thread is inside a call the triggers are still served.
C26_TriggersDoNotWait ==
  /\ [][/\ spawned' # spawned =>
             /\ spawned' = spawned + 1
             /\ tasks'[spawned'].pc = "start"
             /\ \A t \in TaskIds \ {spawned'} : tasks'[t] = tasks[t]
             /\ calls' = calls
        /\ \A t \in TaskIds :
             (tasks'[t].pc \in Calling /\ tasks[t].pc \notin Calling)
               => /\ spawned' = spawned
                  /\ t <= spawned
                  /\ tasks[t].pc \in {"start", "loop"}]_vars
  /\ [](\A t \in TaskIds :
          (tasks[t].pc \in Calling /\ spawned < MaxSpawns)
            => /\ ENABLED generate_sample_stamps(MaxSets)
               /\ ENABLED generate_full_stamps(MaxSets)
               /\ Exists(tasks[t].set)
                    => /\ ENABLED approve_direction(tasks[t].set)
                       /\ ENABLED start_direction_workflow(tasks[t].set, FALSE))

\* C26 witness: the first thread is inside an Image Client call while a
\* second thread, started for the same Set, is inside a Prompt Client call.
C26_Witness ==
  /\ spawned = 2
  /\ tasks[1].pc = "calling"
  /\ tasks[2].pc = "prompting"
  /\ tasks[2].set = tasks[1].set

\* C27: start_direction_workflow with a reference image changes no Set, no
\* row and no thread; without one it starts exactly one proposal thread and
\* changes no Set and no row; and no step of a proposal thread changes a Set
\* or a row.
C27_DirectionStartsOnlyProposals ==
  [][/\ handled' # handled
          => UNCHANGED << numSets, sets, stamps, tasks, spawned, calls >>
     /\ (spawned' # spawned /\ tasks'[spawned'].kind = "proposal")
          => /\ spawned' = spawned + 1
             /\ \A t \in TaskIds \ {spawned'} : tasks'[t] = tasks[t]
             /\ UNCHANGED << numSets, sets, stamps >>
     /\ \A t \in TaskIds :
          (tasks[t].kind = "proposal" /\ tasks'[t] # tasks[t])
            => UNCHANGED << numSets, sets, stamps, spawned >>]_vars

\* C27 witness: for one Set the upload of a reference image has been asked
\* for, a proposal thread has ended with its proposals notified, and the Set
\* is as it was inserted.
C27_Witness ==
  \E s \in SetIds, t \in TaskIds :
    /\ Exists(s)
    /\ Handled("reference", s, 0) \in handled
    /\ tasks[t].kind = "proposal" /\ tasks[t].set = s
    /\ tasks[t].pc = "done" /\ tasks[t].note = "proposals"
    /\ sets[s] = StampSet

\* C28: the sample stage calls the Image Client for at most SampleSize rows,
\* in ascending order of their numbers, each of them flagged as a sample,
\* and while the status is samples_generating.
C28_SamplesAreFlaggedItems ==
  \A t \in TaskIds :
    (tasks[t].kind = "sample" /\ tasks[t].pc = "calling")
      => LET s == tasks[t].set
             j == tasks[t].i + 1
         IN /\ sets[s].status = "samples_generating"
            /\ j <= SampleSize
            /\ \A k \in 1..(j - 1) : stamps[s][k].number <= stamps[s][j].number
            /\ stamps[s][j].is_sample

\* C29: the count a progress notification of the full stage reports is the
\* number of rows of the Set that have an artifact at that moment.
C29_ProgressReportsCompleted ==
  \A t \in TaskIds :
    (/\ tasks[t].kind = "full" /\ tasks[t].pc = "calling"
     /\ tasks[t].note = "progress")
      => ProgressCount(tasks[t].i) = Cardinality(WithImage(tasks[t].set))

\* C30: the step in which a stage thread is ended by an error leaves a
\* failure notification and changes no Set (so not its base seed) and no row;
\* no step removes or replaces a recorded artifact path; and a row gets its
\* path only in the step in which the thread that called the Image Client
\* for it goes on after the call.
C30_ErrorKeepsTheStore ==
  [][/\ \A t \in TaskIds :
          (tasks[t].pc # "done" /\ tasks'[t].pc = "done" /\ tasks'[t].err # "")
            => /\ tasks'[t].note = "failure"
               /\ UNCHANGED << numSets, sets, stamps >>
     /\ \A s \in SetIds : \A j \in 1..Len(stamps[s]) :
          /\ stamps[s][j].image_path # NoPath
               => stamps'[s][j].image_path = stamps[s][j].image_path
          /\ (stamps[s][j].image_path = NoPath
                /\ stamps'[s][j].image_path # NoPath)
               => \E t \in TaskIds :
                    /\ tasks[t].pc = "calling"
                    /\ tasks[t].set = s /\ tasks[t].i + 1 = j
                    /\ tasks'[t].pc = "loop"]_vars

\* C30 witness: a sample thread was ended by the save of its second image
\* raising; the failure is notified, the first row keeps its artifact path
\* and the Set its base seed.
C30_Witness ==
  \E t \in TaskIds :
    /\ tasks[t].kind = "sample" /\ tasks[t].pc = "done"
    /\ tasks[t].err = "save" /\ tasks[t].note = "failure"
    /\ tasks[t].i = 1
    /\ stamps[tasks[t].set][1].image_path # NoPath
    /\ stamps[tasks[t].set][2].image_path = NoPath
    /\ sets[tasks[t].set].seed # NoSeed

\* C31: an Item of a Set with character consistency that has an artifact
\* carries in its seed column the seed of an Image Client call made for it.
C31_ItemCarriesItsSeed ==
  \A s \in SetIds : \A j \in 1..Len(stamps[s]) :
    (sets[s].character_consistency /\ stamps[s][j].image_path # NoPath)
      => \E c \in calls :
           /\ c.set = s /\ c.number = stamps[s][j].number
           /\ c.seed = stamps[s][j].seed

\* C32: a Set is completed only if every one of its Items has an artifact
\* path.
C32_CompletedHasAllArtifacts ==
  \A s \in SetIds :
    (Exists(s) /\ sets[s].status = "completed")
      => WithImage(s) = 1..Len(stamps[s])

\* C33: the step in which a sample thread finds its Set without rows ends
\* the thread with a failure notification and the Set in patterns_approved,
\* makes no call and writes no base seed, whatever the status was when the
\* stage was invoked.
C33_NoItemsNoSamples ==
  [][\A t \in TaskIds :
       (/\ tasks[t].kind = "sample" /\ tasks[t].pc = "select"
        /\ stamps[tasks[t].set] = << >>
        /\ tasks'[t] # tasks[t])
         => LET s == tasks[t].set IN
            /\ tasks'[t].pc = "done" /\ tasks'[t].err = ""
            /\ tasks'[t].note = "failure"
            /\ sets'[s].status = "patterns_approved"
            /\ sets'[s].seed = sets[s].seed
            /\ calls' = calls
            /\ stamps' = stamps]_vars

\* C33 witness: a sample thread has ended with the failure notification on
\* a Set without rows that the full stage had completed and exported before;
\* the Set is in patterns_approved and has no base seed.
C33_Witness ==
  \E t \in TaskIds :
    /\ tasks[t].kind = "sample" /\ tasks[t].pc = "done"
    /\ tasks[t].note = "failure"
    /\ Exists(tasks[t].set)
    /\ stamps[tasks[t].set] = << >>
    /\ sets[tasks[t].set].lora_exported
    /\ sets[tasks[t].set].status = "patterns_approved"
    /\ sets[tasks[t].set].seed = NoSeed
    /\ calls = {}

C35_PathIsMonotonic ==
  [][\A s \in SetIds :
       /\ \A j \in 1..Len(stamps[s]) :
            stamps[s][j].image_path # NoPath
              => /\ j <= Len(stamps'[s])
                 /\ stamps'[s][j].image_path # NoPath
       /\ Cardinality({j \in 1..Len(stamps'[s]) :
                         stamps'[s][j].image_path # NoPath})
            >= Cardinality(WithImage(s))]_vars

\* C35 witness: the sample stage has saved an image again for a row that had
\* one: the thread has gone past the row in a second run of the stage and
\* the path is there.
C35_Witness ==
  \E t \in TaskIds :
    /\ t > 1
    /\ tasks[t].kind = "sample" /\ tasks[t].pc = "loop"
    /\ tasks[1].kind = "sample" /\ tasks[1].pc = "done"
    /\ tasks[1].note = "samples" /\ tasks[1].set = tasks[t].set
    /\ 1 \in tasks[t].generated
    /\ stamps[tasks[t].set][1].image_path # NoPath

\* C36 (as stated): a sample thread that ends after it selected its rows has
\* called the Image Client for every one of them.
C36_EverySelectedItemIsCalled ==
  [][\A t \in TaskIds :
       (/\ tasks[t].kind = "sample"
        /\ tasks[t].pc \in {"loop", "calling"}
        /\ tasks'[t].pc = "done")
         => \/ tasks[t].pc = "loop" /\ tasks[t].i = tasks[t].n
            \/ tasks[t].pc = "calling" /\ tasks[t].i + 1 = tasks[t].n]_vars

\* C36 (amended): the sample loop passes over no row: at row i + 1 of its
\* selection the thread's step is the Image Client call for that row, whether
\* or not the row has an artifact path; after a call it goes on to the next
\* row, and it ends before the last row only when saving an image raised.
C36_SampleLoopSkipsNothing ==
  [][\A t \in TaskIds :
       (tasks[t].kind = "sample" /\ tasks'[t] # tasks[t])
         => /\ (tasks[t].pc = "loop" /\ tasks[t].i < tasks[t].n)
                 => /\ tasks'[t].pc = "calling"
                    /\ tasks'[t].i = tasks[t].i
            /\ tasks[t].pc = "calling"
                 => \/ /\ tasks'[t].pc = "loop"
                       /\ tasks'[t].i = tasks[t].i + 1
                    \/ /\ tasks'[t].pc = "done"
                       /\ tasks'[t].err = "save"
            /\ (tasks[t].pc = "loop" /\ tasks'[t].pc = "done")
                 => tasks[t].i = tasks[t].n]_vars

\* C36 witness: in a re-invocation of the sample stage the thread is inside
\* the Image Client call for a row that already has an artifact path.
C36_Witness ==
  \E t \in TaskIds :
    /\ tasks[t].kind = "sample" /\ tasks[t].pc = "calling"
    /\ stamps[tasks[t].set][tasks[t].i + 1].image_path # NoPath

====
